---- MODULE Spec2Model ----
(***************************************************************************)
(* Model of citygross.py: a command line client that logs in to the City   *)
(* Gross public API, downloads the receipts of the account, groups the     *)
(* item lines by item number and prints one table row per item.            *)
(*                                                                         *)
(* Python values are modelled by what the interpreter does with them:      *)
(* int is an arbitrary precision natural (a little-endian sequence of      *)
(* limbs), float is an IEEE-754 binary64 (53 bit mantissa, round to        *)
(* nearest even) kept as an odd mantissa and a binary exponent, str is a   *)
(* sequence of code points, None is a value of its own.                    *)
(***************************************************************************)
EXTENDS Integers, Sequences, FiniteSets, TLC

VARIABLES
    argv,       \* command line: [command, email, password]
    pc,         \* position of the single thread of control
    session,    \* aiohttp.ClientSession: "none", "open" or "closed"
    requests,   \* HTTP requests issued so far, in order
    loginResp,  \* the login response as received (history)
    token,      \* value returned by login()
    payload,    \* body of the receipts response as sent by the server
    receipts,   \* local `receipts` of print_receipts: the aggregation map
    rows,       \* rows consumed by tabulate from list_of_purchases
    rowKey,     \* item number behind each row (not part of the row)
    stdout,     \* what was written to standard output
    stderr,     \* what was written to standard error
    exitcode,   \* process exit status, -1 while running
    exc         \* exception that ended the run, NoExc if none

vars == <<argv, pc, session, requests, loginResp, token, payload, receipts,
          rows, rowKey, stdout, stderr, exitcode, exc>>

----------------------------------------------------------------------------
(* Bounds of the model *)

MaxReceipts == 2    \* receipts in one response
MaxLines == 2       \* item lines in one response, over all its receipts

----------------------------------------------------------------------------
(* Arbitrary precision naturals: limbs of LimbBits bits, least significant *)
(* first, no most significant zero limb.                                   *)

MantBits == 53
LimbBits == 15
Base == 2^LimbBits

Zeros(k) == [i \in 1..k |-> 0]
NonZero(a) == {i \in 1..Len(a) : a[i] # 0}
MaxOf(S) == CHOOSE i \in S : \A j \in S : j <= i
MinOf(S) == CHOOSE i \in S : \A j \in S : i <= j
At(a, i) == IF i \in 1..Len(a) THEN a[i] ELSE 0
Norm(a) == IF NonZero(a) = {} THEN <<>> ELSE SubSeq(a, 1, MaxOf(NonZero(a)))

RECURSIVE Limbs(_)
Limbs(n) == IF n = 0 THEN <<>> ELSE <<n % Base>> \o Limbs(n \div Base)

RECURSIVE AddFrom(_, _, _, _)
AddFrom(a, b, i, carry) ==
    IF i > Len(a) /\ i > Len(b)
    THEN IF carry = 0 THEN <<>> ELSE <<carry>>
    ELSE LET s == At(a, i) + At(b, i) + carry
         IN  <<s % Base>> \o AddFrom(a, b, i + 1, s \div Base)

BigAdd(a, b) == Norm(AddFrom(a, b, 1, 0))

MulPow2(a, r) ==
    Norm([i \in 1..(Len(a) + 1) |->
            ((At(a, i) * 2^r) % Base) + ((At(a, i - 1) * 2^r) \div Base)])

DivPow2(a, r) ==
    Norm([i \in 1..Len(a) |->
            (a[i] \div 2^r) + (At(a, i + 1) % 2^r) * 2^(LimbBits - r)])

ShiftLeft(a, s) ==
    IF a = <<>> THEN <<>>
    ELSE Zeros(s \div LimbBits) \o MulPow2(a, s % LimbBits)

ShiftRight(a, s) ==
    DivPow2(SubSeq(a, (s \div LimbBits) + 1, Len(a)), s % LimbBits)

LostBits(a, s) ==
    \/ \E i \in 1..(s \div LimbBits) : At(a, i) # 0
    \/ At(a, (s \div LimbBits) + 1) % 2^(s % LimbBits) # 0

RECURSIVE DivFrom(_, _, _, _)
DivFrom(a, d, i, rem) ==
    IF i = 0 THEN [q |-> <<>>, r |-> rem]
    ELSE LET v == rem * Base + a[i]
             rest == DivFrom(a, d, i - 1, v % d)
         IN  [q |-> Append(rest.q, v \div d), r |-> rest.r]

DivSmall(a, d) ==
    LET res == DivFrom(a, d, Len(a), 0) IN [q |-> Norm(res.q), r |-> res.r]

BitLen(a) ==
    IF a = <<>> THEN 0
    ELSE (Len(a) - 1) * LimbBits + MinOf({k \in 1..LimbBits : a[Len(a)] < 2^k})

TrailingZeros(a) ==
    LET j == MinOf(NonZero(a))
    IN  (j - 1) * LimbBits + MaxOf({k \in 0..LimbBits : a[j] % 2^k = 0})

\* -1, 0 or 1 as a < b, a = b or a > b
BigCmp(a, b) ==
    IF Len(a) # Len(b) THEN (IF Len(a) < Len(b) THEN -1 ELSE 1)
    ELSE LET D == {i \in 1..Len(a) : a[i] # b[i]}
         IN  IF D = {} THEN 0
             ELSE IF a[MaxOf(D)] < b[MaxOf(D)] THEN -1 ELSE 1

----------------------------------------------------------------------------
(* Python numbers.  Every value is a record [t, m, e]: its type, and for a *)
(* number the value m * 2^e (e = 0 for an int; m odd for a float).         *)

PyInt(n) == [t |-> "int", m |-> Limbs(n), e |-> 0]
PyNone == [t |-> "None", m |-> <<>>, e |-> 0]

Canon(a, e) ==
    IF a = <<>> THEN [t |-> "float", m |-> <<>>, e |-> 0]
    ELSE [t |-> "float", m |-> ShiftRight(a, TrailingZeros(a)),
          e |-> e + TrailingZeros(a)]

\* a * 2^e (plus a nonzero tail below it when sticky) rounded to binary64
Round(a, e, sticky) ==
    LET L == BitLen(a)
    IN  IF L <= MantBits THEN Canon(a, e)
        ELSE LET drop == L - MantBits - 1
                 v == ShiftRight(a, drop)
                 M == DivPow2(v, 1)
                 g == v[1] % 2
                 rest == sticky \/ LostBits(a, drop)
                 up == g = 1 /\ (rest \/ M[1] % 2 = 1)
             IN  Canon(IF up THEN BigAdd(M, <<1>>) ELSE M, e + drop + 1)

\* float("c/100"): the binary64 nearest to the decimal with two places
FromDecimal(c) ==
    LET d == DivSmall(Zeros(5) \o Limbs(c), 100)
    IN  Round(d.q, -(5 * LimbBits), d.r # 0)

FloatAdd(x, y) ==
    LET emin == IF x.e < y.e THEN x.e ELSE y.e
    IN  Round(BigAdd(ShiftLeft(x.m, x.e - emin), ShiftLeft(y.m, y.e - emin)),
              emin, FALSE)

ToFloat(x) == IF x.t = "float" THEN x ELSE Round(x.m, 0, FALSE)

\* -1, 0 or 1: numeric comparison of two numbers of either type
NumCmp(x, y) ==
    LET emin == IF x.e < y.e THEN x.e ELSE y.e
    IN  BigCmp(ShiftLeft(x.m, x.e - emin), ShiftLeft(y.m, y.e - emin))

----------------------------------------------------------------------------
(* Strings are sequences of code points; str < str is lexicographic.       *)

FirstDiff(a, b) ==
    LET n == IF Len(a) < Len(b) THEN Len(a) ELSE Len(b)
        D == {i \in 1..n : a[i] # b[i]}
    IN  IF D = {} THEN 0 ELSE MinOf(D)

StrLess(a, b) ==
    IF FirstDiff(a, b) = 0 THEN Len(a) < Len(b)
    ELSE a[FirstDiff(a, b)] < b[FirstDiff(a, b)]

Digit(d) == <<48 + d>>

RECURSIVE DecStr(_)
DecStr(n) == IF n < 10 THEN Digit(n) ELSE DecStr(n \div 10) \o Digit(n % 10)

\* decimal digits of an arbitrary precision natural
RECURSIVE BigDecStr(_)
BigDecStr(a) ==
    IF Len(a) <= 1 /\ At(a, 1) < 10 THEN Digit(At(a, 1))
    ELSE BigDecStr(DivSmall(a, 10).q) \o Digit(DivSmall(a, 10).r)

Join(sep, strs) ==
    LET RECURSIVE J(_)
        J(k) == IF k = 0 THEN <<>>
                ELSE IF k = 1 THEN strs[1]
                ELSE J(k - 1) \o sep \o strs[k]
    IN  J(Len(strs))

CommaSpace == <<44, 32>>
StrNone == <<78, 111, 110, 101>>
Milk == <<77, 105, 108, 107>>
Egg == <<69, 103, 103>>

----------------------------------------------------------------------------
(* The JSON bodies the server may send.  A number literal is written with  *)
(* or without a fraction part: [lit, c] stands for the decimal c/100.      *)

IntLit(n) == [lit |-> "int", c |-> 100 * n]
FracLit(c) == [lit |-> "frac", c |-> c]
NullLit == [lit |-> "null", c |-> 0]

\* the article of a line: three item numbers share a display name, and one
\* item number is sold under two display names
ArticleLits ==
    { [itemNumber |-> "A1", itemText |-> Milk],
      [itemNumber |-> "B2", itemText |-> Milk],
      [itemNumber |-> "B2", itemText |-> Egg],
      [itemNumber |-> "C3", itemText |-> Milk] }

\* unitPrice and total of a line as the server writes them
PriceLits ==
    { <<IntLit(10), IntLit(10)>>, <<IntLit(12), IntLit(12)>>,
      <<FracLit(10), FracLit(10)>>, <<FracLit(10), FracLit(20)>>,
      <<IntLit(10), NullLit>> }

GoodLines ==
    { [article |-> a, unitPrice |-> p[1], total |-> p[2]] :
      a \in ArticleLits, p \in PriceLits }

\* item lines lacking a field the aggregation reads
BadLines ==
    { [article |-> [itemText |-> Milk],
       unitPrice |-> IntLit(10), total |-> IntLit(10)],
      [article |-> [itemNumber |-> "A1"],
       unitPrice |-> IntLit(10), total |-> IntLit(10)],
      [article |-> [itemNumber |-> "A1", itemText |-> Milk],
       total |-> IntLit(10)],
      [article |-> [itemNumber |-> "A1", itemText |-> Milk],
       unitPrice |-> IntLit(10)] }

Lines == GoodLines \cup BadLines

\* the ways to cut n lines into r receipts (a receipt may be empty)
RECURSIVE Cuts(_, _)
Cuts(n, r) ==
    IF r = 0 THEN (IF n = 0 THEN {<<>>} ELSE {})
    ELSE UNION { {<<k>> \o c : c \in Cuts(n - k, r - 1)} : k \in 0..n }

RECURSIVE CutAt(_, _)
CutAt(ls, cut) ==
    IF cut = <<>> THEN <<>>
    ELSE <<[items |-> SubSeq(ls, 1, cut[1])]>>
         \o CutAt(SubSeq(ls, cut[1] + 1, Len(ls)), Tail(cut))

\* every item line of a body, in the order the body lists them
RECURSIVE Flatten(_)
Flatten(d) == IF d = <<>> THEN <<>> ELSE d[1].items \o Flatten(Tail(d))

FracCents == {p[i].c : p \in PriceLits, i \in 1..2}
FloatOf == [c \in FracCents |-> FromDecimal(c)]

\* json.loads on a number or null
Decode(w) ==
    IF w.lit = "int" THEN PyInt(w.c \div 100)
    ELSE IF w.lit = "frac" THEN FloatOf[w.c]
    ELSE PyNone

DecodeItem(w) ==
    [k \in DOMAIN w |-> IF k = "article" THEN w[k] ELSE Decode(w[k])]

JsonDecode(body) ==
    [i \in 1..Len(body) |->
        [items |-> [j \in 1..Len(body[i].items) |-> DecodeItem(body[i].items[j])]]]

----------------------------------------------------------------------------
(* Python semantics used by the aggregation and the report.                *)

Exc(type, arg) == [type |-> type, arg |-> arg]
NoExc == Exc("none", "")

Article(name, purchases) == [name |-> name, purchases |-> purchases]
Purchase(unit_price, total_price) ==
    [unit_price |-> unit_price, total_price |-> total_price]

\* a == b on numbers and None
PyEq(a, b) ==
    IF a.t = "None" \/ b.t = "None" THEN a.t = b.t ELSE NumCmp(a, b) = 0

\* a < b: "T", "F", or "E" when Python raises TypeError
PyLess(a, b) ==
    IF a.t = "None" \/ b.t = "None" THEN "E"
    ELSE IF NumCmp(a, b) < 0 THEN "T" ELSE "F"

PurchaseEq(p, q) ==
    PyEq(p.unit_price, q.unit_price) /\ PyEq(p.total_price, q.total_price)

\* tuple comparison: the first field that differs decides
PurchaseLess(p, q) ==
    IF ~PyEq(p.unit_price, q.unit_price)
    THEN PyLess(p.unit_price, q.unit_price)
    ELSE IF ~PyEq(p.total_price, q.total_price)
    THEN PyLess(p.total_price, q.total_price)
    ELSE "F"

\* list comparison: the first element that differs decides, else the length
PurchasesLess(x, y) ==
    LET n == IF Len(x) < Len(y) THEN Len(x) ELSE Len(y)
        D == {i \in 1..n : ~PurchaseEq(x[i], y[i])}
    IN  IF D = {} THEN (IF Len(x) < Len(y) THEN "T" ELSE "F")
        ELSE PurchaseLess(x[MinOf(D)], y[MinOf(D)])

PurchasesEq(x, y) ==
    Len(x) = Len(y) /\ \A i \in 1..Len(x) : PurchaseEq(x[i], y[i])

\* Article < Article: namedtuple comparison, name first, then purchases
ArticleLess(a, b) ==
    IF a.name # b.name
    THEN (IF StrLess(a.name, b.name) THEN "T" ELSE "F")
    ELSE PurchasesLess(a.purchases, b.purchases)

\* sorted(): stable; the result is the order as indices into vals
RECURSIVE InsertionSort(_, _)
InsertionSort(vals, k) ==
    IF k = 0 THEN <<>>
    ELSE LET done == InsertionSort(vals, k - 1)
             keep == {i \in 1..Len(done) :
                        ArticleLess(vals[k], vals[done[i]]) # "T"}
             p == IF keep = {} THEN 0 ELSE MaxOf(keep)
         IN  SubSeq(done, 1, p) \o <<k>> \o SubSeq(done, p + 1, Len(done))

\* no sort: the articles in dict order
Unsorted(vals, k) == [i \in 1..k |-> i]

\* sorted(set(...)): an article equal to an earlier one is dropped
SortedDistinct(vals, k) ==
    LET all == InsertionSort(vals, k)
        firsts == {i \in 1..Len(all) : \A j \in 1..(i - 1) : vals[all[j]] # vals[all[i]]}
        RECURSIVE Pick(_)
        Pick(i) == IF i = 0 THEN <<>>
                   ELSE IF i \in firsts THEN Append(Pick(i - 1), all[i])
                   ELSE Pick(i - 1)
    IN  Pick(Len(all))

SortOrder(vals, k) == InsertionSort(vals, k)

\* sorted() raises TypeError when two elements cannot be ordered: two
\* elements that cannot be compared have no element strictly between them,
\* so every comparison sort has to compare them.
SortRaises(vals) ==
    \E i, j \in 1..Len(vals) : i < j /\ ArticleLess(vals[i], vals[j]) = "E"

PyAdd(a, b) ==
    IF a.t = "int" /\ b.t = "int"
    THEN [t |-> "int", m |-> BigAdd(a.m, b.m), e |-> 0]
    ELSE FloatAdd(ToFloat(a), ToFloat(b))

\* sum(xs): 0 + xs[1] + xs[2] + ... from the left; the t of the result is
\* "TypeError" when an addition raises
RECURSIVE SumFrom(_, _, _)
SumFrom(acc, xs, i) ==
    IF i > Len(xs) THEN acc
    ELSE IF xs[i].t = "None" THEN [t |-> "TypeError", m |-> <<>>, e |-> 0]
    ELSE SumFrom(PyAdd(acc, xs[i]), xs, i + 1)

PySum(xs) == SumFrom(PyInt(0), xs, 1)

\* repr of a float read from a decimal with two places: the shortest
\* decimal that reads back as the same float
FloatRepr(f) ==
    LET c == CHOOSE c \in FracCents : FloatOf[c] = f
    IN  DecStr(c \div 100) \o <<46>> \o
        (IF c % 10 = 0 THEN Digit((c % 100) \div 10)
         ELSE Digit((c % 100) \div 10) \o Digit(c % 10))

\* str(x)
Str(x) ==
    IF x.t = "int" THEN BigDecStr(x.m)
    ELSE IF x.t = "float" THEN FloatRepr(x)
    ELSE StrNone

----------------------------------------------------------------------------
(* parse_receipts: the aggregation map is a dict, kept as its keys in      *)
(* insertion order and the value of each key.                              *)

EmptyDict == [raised |-> FALSE, exc |-> NoExc, keys |-> <<>>, val |-> <<>>]

Raised(e) == [raised |-> TRUE, exc |-> e, keys |-> <<>>, val |-> <<>>]

ArticleNumber(item) == item.article.itemNumber

\* appending a purchase only when no equal one is in the list
AppendIfNew(ps, p) == IF \E i \in 1..Len(ps) : ps[i] = p THEN ps ELSE Append(ps, p)

\* putting the newest purchase first
Prepend(ps, p) == <<p>> \o ps

\* list.append
AppendPurchase(ps, p) == Append(ps, p)

\* the first key the loop body looks up and does not find, "" if none
MissingKey(item) ==
    IF "article" \notin DOMAIN item THEN "article"
    ELSE IF "itemNumber" \notin DOMAIN item.article THEN "itemNumber"
    ELSE IF "itemText" \notin DOMAIN item.article THEN "itemText"
    ELSE IF "unitPrice" \notin DOMAIN item THEN "unitPrice"
    ELSE IF "total" \notin DOMAIN item THEN "total"
    ELSE ""

\* the loop body skipping a line that lacks a field instead of raising
AddItemLenient(d, item) ==
    IF MissingKey(item) # "" THEN d
    ELSE LET article_number == item.article.itemNumber
             d1 == IF article_number \notin DOMAIN d.val
                   THEN [d EXCEPT !.keys = Append(@, article_number),
                                  !.val = (article_number :> Article(item.article.itemText, <<>>)) @@ @]
                   ELSE d
         IN  [d1 EXCEPT !.val[article_number].purchases =
                  Append(@, Purchase(item.unitPrice, item.total))]

\* body of the inner loop on one item line
AddItem(d, item) ==
    IF MissingKey(item) # "" THEN Raised(Exc("KeyError", MissingKey(item)))
    ELSE LET article_number == ArticleNumber(item)
             article_text == item.article.itemText
             d1 == IF article_number \notin DOMAIN d.val
                   THEN [d EXCEPT !.keys = Append(@, article_number),
                                  !.val = (article_number :> Article(article_text, <<>>)) @@ @]
                   ELSE d
         IN  [d1 EXCEPT !.val[article_number].purchases =
                  AppendPurchase(@, Purchase(item.unitPrice, item.total))]

RECURSIVE ParseItems(_, _, _)
ParseItems(d, items, j) ==
    IF d.raised \/ j > Len(items) THEN d
    ELSE ParseItems(AddItem(d, items[j]), items, j + 1)

RECURSIVE ParseFrom(_, _, _)
ParseFrom(d, data, i) ==
    IF d.raised \/ i > Len(data) THEN d
    ELSE ParseFrom(ParseItems(d, data[i].items, 1), data, i + 1)

parse_receipts(data) == ParseFrom(EmptyDict, data, 1)

\* receipts.values()
Values(d) == [i \in 1..Len(d.keys) |-> d.val[d.keys[i]]]

----------------------------------------------------------------------------
(* list_of_purchases: a generator; tabulate consumes it to the end.        *)

Row(article) ==
    <<Len(article.purchases),
      article.name,
      PySum([i \in 1..Len(article.purchases) |-> article.purchases[i].total_price]),
      Join(CommaSpace,
           [i \in 1..Len(article.purchases) |-> Str(article.purchases[i].unit_price)])>>

\* [raised, rows, order]: the rows yielded (up to the one whose computation
\* raises) and, for each, the index of its article in `values`
list_of_purchases(values) ==
    IF SortRaises(values) THEN [raised |-> TRUE, rows |-> <<>>, order |-> <<>>]
    ELSE LET order == SortOrder(values, Len(values))
             all == [i \in 1..Len(order) |-> Row(values[order[i]])]
             bad == {i \in 1..Len(all) : all[i][3].t = "TypeError"}
             n == IF bad = {} THEN Len(all) ELSE MinOf(bad) - 1
         IN  [raised |-> bad # {}, rows |-> SubSeq(all, 1, n),
              order |-> SubSeq(order, 1, n)]

Headers == <<"Count", "Item", "Total Price", "Unit Prices">>

\* writing the header and every row as it is yielded
PrintTableEagerly(out, built) ==
    Append(out, [headers |-> Headers, rows |-> built.rows])

\* print(tabulate.tabulate(rows, headers=...)): the argument is evaluated,
\* the generator consumed, before anything is written
PrintTable(out, built) ==
    IF built.raised THEN out
    ELSE Append(out, [headers |-> Headers, rows |-> built.rows])

----------------------------------------------------------------------------
(* The environment: the command line and the two server responses.         *)

LOGIN_URL == "https://publicapi.citygross.se/publickdb/odata/Logins/SignIn"
RECEIPTS_URL == "https://publicapi.citygross.se/PublicContent/api/receipts"

\* a command line argument: given or not, and its text
Arg(s) == [given |-> TRUE, s |-> s]
NoArg == [given |-> FALSE, s |-> ""]
Truthy(a) == a.given /\ a.s # ""

Argvs ==
    [command : {NoArg, Arg("print"), Arg("list")},
     email : {NoArg, Arg(""), Arg("me@example.com")},
     password : {NoArg, Arg(""), Arg("secret")}]

JStr(s) == [t |-> "str", s |-> s]
JNull == [t |-> "None", s |-> ""]

NoResponse == [kind |-> "none", status |-> 0, body |-> <<>>]
TransportError == [kind |-> "transport_error", status |-> 0, body |-> <<>>]

\* kind "text": a body that is not JSON; kind "json": a decoded JSON body
LoginResponses ==
    {TransportError}
    \cup [kind : {"text"}, status : {200, 401}, body : {<<>>}]
    \cup [kind : {"json"}, status : {200},
          body : {[Uid |-> JStr("c0ffee")], [Uid |-> JNull]}]
    \cup [kind : {"json"}, status : {200, 401},
          body : {[Message |-> JStr("denied")]}]

ReceiptsFailures ==
    {TransportError} \cup [kind : {"text"}, status : {200}, body : {<<>>}]

JsonResponse(body) == [kind |-> "json", status |-> 200, body |-> body]

----------------------------------------------------------------------------
(* login: the value it returns, or the exception it raises.                *)

Returned(v) == [raised |-> FALSE, exc |-> NoExc, val |-> v]
Raises(e) == [raised |-> TRUE, exc |-> e, val |-> JNull]

\* login with resp.get('Uid', '') in place of resp['Uid']
loginWithDefault(resp) ==
    IF resp.kind = "json" /\ "Uid" \notin DOMAIN resp.body
    THEN Returned(JStr(""))
    ELSE IF resp.kind = "transport_error" THEN Raises(Exc("ClientError", ""))
    ELSE IF resp.kind = "text" THEN Raises(Exc("ContentTypeError", ""))
    ELSE Returned(resp.body.Uid)

login(resp) ==
    IF resp.kind = "transport_error" THEN Raises(Exc("ClientError", ""))
    ELSE IF resp.kind = "text" THEN Raises(Exc("ContentTypeError", ""))
    ELSE IF "Uid" \notin DOMAIN resp.body THEN Raises(Exc("KeyError", "Uid"))
    ELSE Returned(resp.body.Uid)

\* a session that is never closed
SessionLeft(s) == s

\* leaving `async with aiohttp.ClientSession()`: __aexit__ closes it
SessionExit(s) == "closed"

\* the same checks with the command looked at first
DispatchCommandFirst(args) ==
    IF ~args.command.given THEN "usage"
    ELSE IF args.command.s = "print" THEN "print"
    ELSE "unknown"

\* the checks of main, in the order main makes them: what main does next
Dispatch(args) ==
    IF ~args.command.given THEN "usage"
    ELSE IF ~Truthy(args.email) \/ ~Truthy(args.password) THEN "usage"
    ELSE IF args.command.s = "print" THEN "print"
    ELSE "unknown"

----------------------------------------------------------------------------
(* The program.                                                            *)

NoDict == [set |-> FALSE, keys |-> <<>>, val |-> <<>>]

Init ==
    /\ argv \in Argvs
    /\ pc = "main"
    /\ session = "none"
    /\ requests = <<>>
    /\ loginResp = NoResponse
    /\ token = JNull
    /\ payload = NoResponse
    /\ receipts = NoDict
    /\ rows = <<>>
    /\ rowKey = <<>>
    /\ stdout = <<>>
    /\ stderr = <<>>
    /\ exitcode = -1
    /\ exc = NoExc

\* an exception leaves print_receipts (closing the session), then main,
\* then run_until_complete: traceback on stderr, exit status 1
Fail(e) ==
    /\ exc' = e
    /\ session' = SessionExit(session)
    /\ stderr' = Append(stderr, [kind |-> "traceback", text |-> e.type])
    /\ exitcode' = 1
    /\ pc' = "exited"

\* main: parse the command line and dispatch on the command
main ==
    /\ pc = "main"
    /\ LET next == Dispatch(argv)
       IN  IF next = "usage"
           THEN /\ stderr' = Append(stderr, [kind |-> "usage", text |-> "usage"])
                /\ exitcode' = 2
                /\ pc' = "exited"
           ELSE IF next = "print"
           THEN /\ pc' = "print_receipts"
                /\ UNCHANGED <<stderr, exitcode>>
           ELSE /\ stderr' = Append(stderr, [kind |-> "message",
                                             text |-> "Unknown command: " \o argv.command.s])
                /\ exitcode' = 1
                /\ pc' = "exited"
    /\ UNCHANGED <<argv, session, requests, loginResp, token, payload,
                   receipts, rows, rowKey, stdout, exc>>

\* print_receipts enters `async with aiohttp.ClientSession()`
OpenSession ==
    /\ pc = "print_receipts"
    /\ session' = "open"
    /\ pc' = "login"
    /\ UNCHANGED <<argv, requests, loginResp, token, payload, receipts, rows,
                   rowKey, stdout, stderr, exitcode, exc>>

\* login posts the credentials and awaits the response
LoginPost ==
    /\ pc = "login"
    /\ requests' = Append(requests,
          [url |-> LOGIN_URL, session |-> session, authorization |-> "",
           body |-> [Email |-> argv.email.s, Password |-> argv.password.s]])
    /\ pc' = "login_wait"
    /\ UNCHANGED <<argv, session, loginResp, token, payload, receipts, rows,
                   rowKey, stdout, stderr, exitcode, exc>>

\* the login response arrives: login returns resp['Uid'] or raises
LoginResponse ==
    /\ pc = "login_wait"
    /\ \E resp \in LoginResponses :
         /\ loginResp' = resp
         /\ IF login(resp).raised
            THEN /\ Fail(login(resp).exc)
                 /\ UNCHANGED token
            ELSE /\ token' = login(resp).val
                 /\ pc' = "get_receipts"
                 /\ UNCHANGED <<session, stderr, exitcode, exc>>
    /\ UNCHANGED <<argv, requests, payload, receipts, rows, rowKey, stdout>>

\* get_receipts builds the headers ('Bearer ' + token raises TypeError for
\* a token that is not a str), posts the query and awaits the response
ReceiptsPost ==
    /\ pc = "get_receipts"
    /\ IF token.t # "str"
       THEN /\ Fail(Exc("TypeError", ""))
            /\ UNCHANGED requests
       ELSE /\ requests' = Append(requests,
                 [url |-> RECEIPTS_URL, session |-> session,
                  authorization |-> "Bearer " \o token.s,
                  body |-> [QueryParams |-> <<"$orderBy=endDateTimeUtc desc",
                                              "$filter=flags/isDeleted eq false">>]])
            /\ pc' = "fetch_wait"
            /\ UNCHANGED <<session, stderr, exitcode, exc>>
    /\ UNCHANGED <<argv, loginResp, token, payload, receipts, rows, rowKey, stdout>>

\* the receipts response arrives: get_receipts parses it, print_receipts
\* prints the table, the session is left and the program ends
Respond(resp) ==
    /\ payload' = resp
    /\ IF resp.kind = "transport_error"
       THEN /\ Fail(Exc("ClientError", ""))
            /\ UNCHANGED <<receipts, rows, rowKey, stdout>>
       ELSE IF resp.kind = "text"
       THEN /\ Fail(Exc("ContentTypeError", ""))
            /\ UNCHANGED <<receipts, rows, rowKey, stdout>>
       ELSE \E parsed \in {parse_receipts(JsonDecode(resp.body))} :
            \E built \in {list_of_purchases(Values(parsed))} :
                IF parsed.raised
                THEN /\ Fail(parsed.exc)
                     /\ UNCHANGED <<receipts, rows, rowKey, stdout>>
                ELSE /\ receipts' = [set |-> TRUE, keys |-> parsed.keys,
                                     val |-> parsed.val]
                     /\ rows' = built.rows
                     /\ rowKey' = [i \in 1..Len(built.order) |->
                                      parsed.keys[built.order[i]]]
                     /\ stdout' = PrintTable(stdout, built)
                     /\ IF built.raised
                        THEN Fail(Exc("TypeError", ""))
                        ELSE /\ session' = SessionExit(session)
                             /\ exitcode' = 0
                             /\ pc' = "exited"
                             /\ UNCHANGED <<stderr, exc>>
    /\ UNCHANGED <<argv, requests, loginResp, token>>

ReceiptsResponse ==
    /\ pc = "fetch_wait"
    /\ \/ \E resp \in ReceiptsFailures : Respond(resp)
       \/ \E n \in 0..MaxLines, r \in 0..MaxReceipts :
            \E ls \in [1..n -> Lines], cut \in Cuts(n, r) :
               Respond(JsonResponse(CutAt(ls, cut)))

Next ==
    \/ main
    \/ OpenSession
    \/ LoginPost
    \/ LoginResponse
    \/ ReceiptsPost
    \/ ReceiptsResponse

Spec == Init /\ [][Next]_vars

----------------------------------------------------------------------------
(* What the claims speak about, read off the response the server sent.     *)

Exited == pc = "exited"

\* the table was printed
Reported == Exited /\ exc = NoExc /\ payload.kind = "json"

\* the item lines of the receipts response in arrival order: receipt order,
\* then line order inside a receipt
Arrived == IF payload.kind = "json" THEN Flatten(payload.body) ELSE <<>>

Lacks(line, field) ==
    IF field \in {"itemNumber", "itemText"}
    THEN field \notin DOMAIN line.article
    ELSE field \notin DOMAIN line

RequiredFields == <<"itemNumber", "itemText", "unitPrice", "total">>

Malformed(line) == \E k \in 1..4 : Lacks(line, RequiredFields[k])

WellFormed == \A i \in 1..Len(Arrived) : ~Malformed(Arrived[i])

ItemNumbersArrived == {Arrived[i].article.itemNumber : i \in 1..Len(Arrived)}

\* the lines that reference one item number, in arrival order
IsLineOf(num, line) == line.article.itemNumber = num
LinesOf(num) == SelectSeq(Arrived, LAMBDA line : IsLineOf(num, line))
FirstSeen(num) == MinOf({i \in 1..Len(Arrived) : IsLineOf(num, Arrived[i])})

RowCount(i) == rows[i][1]
RowName(i) == rows[i][2]
RowTotal(i) == rows[i][3]
RowUnits(i) == rows[i][4]

----------------------------------------------------------------------------
\* C1: the report has one row per distinct item number of the receipts, and
\* the aggregation map holds each item number exactly once (an empty list
\* of receipts gives no row).
C1_RowPerItemNumber ==
    Reported =>
        /\ Len(rows) = Cardinality(ItemNumbersArrived)
        /\ Len(receipts.keys) = Cardinality(ItemNumbersArrived)
        /\ {receipts.keys[i] : i \in 1..Len(receipts.keys)} = ItemNumbersArrived
        /\ {rowKey[i] : i \in 1..Len(rowKey)} = ItemNumbersArrived

\* two lines of two receipts name the same item number: one row
C1_Witness ==
    /\ Reported
    /\ Len(payload.body) = 2
    /\ Len(Arrived) = 2
    /\ Len(rows) = 1

\* C2: the count of a row is the number of lines that reference its item
\* number; lines with equal values are counted one by one.
C2_CountIsLineCount ==
    Reported =>
        \A i \in 1..Len(rows) : RowCount(i) = Len(LinesOf(rowKey[i]))

\* the same line twice: counted twice
C2_Witness ==
    /\ Reported
    /\ Len(Arrived) = 2
    /\ Arrived[1] = Arrived[2]
    /\ Len(rows) = 1
    /\ RowCount(1) = 2

\* the decimal sum of the totals of the lines of one item number, in
\* hundredths
RECURSIVE CentsOf(_)
CentsOf(ls) == IF ls = <<>> THEN 0 ELSE ls[1].total.c + CentsOf(Tail(ls))

\* C3: the total of a row is exactly the decimal sum of the totals of the
\* lines of its item number: it equals the number that decimal denotes.
C3_TotalIsDecimalSum ==
    Reported =>
        \A i \in 1..Len(rows) :
            NumCmp(RowTotal(i), FromDecimal(CentsOf(LinesOf(rowKey[i])))) = 0

\* the unit prices of the lines of one item number, as text, in arrival
\* order with ", " between them
RECURSIVE UnitsInArrivalOrder(_, _)
UnitsInArrivalOrder(ls, k) ==
    IF k = 0 THEN <<>>
    ELSE IF k = 1 THEN Str(Decode(ls[1].unitPrice))
    ELSE UnitsInArrivalOrder(ls, k - 1) \o <<44, 32>> \o Str(Decode(ls[k].unitPrice))

\* C4: unit_prices of a row lists the unit price of every line of its item
\* number in arrival order, separated by ", "; sorting the rows does not
\* reorder it.
C4_UnitPricesInArrivalOrder ==
    Reported =>
        \A i \in 1..Len(rows) :
            RowUnits(i) = UnitsInArrivalOrder(LinesOf(rowKey[i]), Len(LinesOf(rowKey[i])))

\* one item bought in two receipts, at 10 and then at 0.1: "10, 0.1"
C4_Witness ==
    /\ Reported
    /\ Len(payload.body) = 2
    /\ Len(rows) = 1
    /\ RowCount(1) = 2
    /\ RowUnits(1) = <<49, 48, 44, 32, 48, 46, 49>>

\* C5: the rows are in ascending order of name; rows of equal name are in
\* the order of their purchase lists, and rows equal in both are in the
\* order their item numbers first arrived: the order of the rows is fixed
\* by the receipts alone.
C5_RowsSortedAndDetermined ==
    \A i, j \in 1..Len(rows) :
        i < j =>
            /\ ~StrLess(RowName(j), RowName(i))
            /\ RowName(i) = RowName(j) =>
                 LET a == receipts.val[rowKey[i]].purchases
                     b == receipts.val[rowKey[j]].purchases
                 IN  /\ PurchasesLess(b, a) = "F"
                     /\ PurchasesEq(a, b) => FirstSeen(rowKey[i]) < FirstSeen(rowKey[j])

\* two item numbers share a display name and their rows are not in the
\* order the item numbers arrived
C5_Witness ==
    /\ Reported
    /\ Len(rows) = 2
    /\ rowKey[1] # rowKey[2]
    /\ RowName(1) = RowName(2)
    /\ FirstSeen(rowKey[2]) < FirstSeen(rowKey[1])

----------------------------------------------------------------------------
LoginFailed ==
    \/ loginResp.kind \in {"transport_error", "text"}
    \/ loginResp.kind = "json" /\ "Uid" \notin DOMAIN loginResp.body

ReceiptsRequests == {i \in 1..Len(requests) : requests[i].url = RECEIPTS_URL}

\* C6: a receipts request is sent only after login returned a token, with
\* that token; when the login call fails no receipts request is issued and
\* the run has ended with a nonzero exit status.
C6_FetchOnlyAfterLogin ==
    /\ LoginFailed => ReceiptsRequests = {} /\ Exited /\ exitcode # 0
    /\ \A i \in ReceiptsRequests :
         /\ i = 2
         /\ requests[1].url = LOGIN_URL
         /\ loginResp.kind = "json"
         /\ "Uid" \in DOMAIN loginResp.body
         /\ loginResp.body.Uid.t = "str"
         /\ requests[i].authorization = "Bearer " \o loginResp.body.Uid.s

\* the server answers the login with 401 and a JSON body without Uid
C6_Witness ==
    /\ LoginFailed
    /\ loginResp.kind = "json"
    /\ loginResp.status = 401
    /\ Exited
    /\ exc = Exc("KeyError", "Uid")

----------------------------------------------------------------------------
BadLinesArrived == {i \in 1..Len(Arrived) : Malformed(Arrived[i])}

\* index (from 0) of the receipt that holds the k-th arrived line
ReceiptIndexOf(k) ==
    MinOf({r \in 1..Len(payload.body) :
             k <= Len(Flatten(SubSeq(payload.body, 1, r)))}) - 1

FirstLacking(line) ==
    RequiredFields[MinOf({k \in 1..4 : Lacks(line, RequiredFields[k])})]

----------------------------------------------------------------------------
\* C8: a run that fails writes nothing to standard output; what is written
\* is the whole table, after every row was computed.
C8_NoPartialReport ==
    /\ exc # NoExc => stdout = <<>>
    /\ stdout # <<>> =>
         /\ Reported
         /\ exitcode = 0
         /\ stdout = <<[headers |-> Headers, rows |-> rows]>>
         /\ Len(rows) = Len(receipts.keys)

\* the first row was built, the sum of the second raised
C8_Witness ==
    /\ Exited
    /\ exc.type = "TypeError"
    /\ receipts.set
    /\ Len(rows) = 1
    /\ Len(receipts.keys) = 2
    /\ stdout = <<>>

----------------------------------------------------------------------------
CredentialsMissing == ~Truthy(argv.email) \/ ~Truthy(argv.password)
CommandNotPrint == argv.command # Arg("print")
NoNetwork == session = "none" /\ requests = <<>>
WroteError == Len(stderr) = 1 /\ stdout = <<>>

\* C9 as stated: missing credentials end the run with a usage error and a
\* nonzero status, a command other than print ends it with an error
\* message and status 1, both without any network activity.
C9_ArgumentErrors ==
    /\ CredentialsMissing =>
         /\ NoNetwork
         /\ Exited => stderr[1].kind = "usage" /\ exitcode # 0
    /\ CommandNotPrint =>
         /\ NoNetwork
         /\ Exited => WroteError /\ exitcode = 1

\* C9 amended: the status 1 and the unknown command message are for a
\* command other than print given with both credentials; missing
\* credentials come first and give the usage error whatever the command.
C9_ArgumentErrorsInOrder ==
    /\ CredentialsMissing =>
         /\ NoNetwork
         /\ Exited => stderr[1].kind = "usage" /\ exitcode = 2
    /\ (argv.command.given /\ CommandNotPrint /\ ~CredentialsMissing) =>
         /\ NoNetwork
         /\ Exited => /\ WroteError
                      /\ stderr[1].kind = "message"
                      /\ exitcode = 1
    /\ CommandNotPrint => NoNetwork

\* `list` with both credentials: the message and status 1
C9_Witness ==
    /\ Exited
    /\ argv.command = Arg("list")
    /\ ~CredentialsMissing
    /\ exitcode = 1
    /\ stderr[1].kind = "message"

----------------------------------------------------------------------------
\* C10: every request is issued on the open session, and a run that opened
\* the session has closed it when it ends, however it ends.
C10_SessionScoped ==
    /\ \A i \in 1..Len(requests) : requests[i].session = "open"
    /\ requests # <<>> => session # "none"
    /\ Exited => session \in {"none", "closed"}
    /\ (Exited /\ requests # <<>>) => session = "closed"

\* the aggregation failed after both requests: the session is closed
C10_Witness ==
    /\ Exited
    /\ Len(requests) = 2
    /\ exc.type = "KeyError"
    /\ session = "closed"

====
